---- MODULE Spec2Model ----
\* The scan session of src/src/components/Scanner.tsx: camera lifecycle
\* (startCamera, stopCamera, the unmount cleanup), the decode callback with its
\* 300 ms timer, searchProduct with its 2 s reset timer, saveScanHistory and
\* handleManualSearch.  React state is the useState cells of the component; each
\* action is one synchronous segment of a handler (from an event or a resumed
\* await up to the next await), which is the unit React and the event loop run
\* without interleaving.  Strings whose content the code inspects (trim,
\* includes) are sequences of one-character strings.
\* The scanner registry of the same component (loadScanners, searchScannerInfo,
\* deleteScannerInfo and the "Manage Scanners" modal) is the second part; it
\* runs under RegistrySpec, the scan session under Spec.
EXTENDS Integers, Sequences, FiniteSets, TLC

\* ---------------------------------------------------------------- bounds
\* decode events plus manual searches over the life of the component
MaxLookups == 2
\* startCamera invocations that have not yet run to their end
MaxStarts == 2
\* stopCamera invocations that are awaiting the engine's stop()
MaxStops == 1
\* registry store calls in flight plus pending 3 s message timers
MaxRegistryCalls == 2

\* ---------------------------------------------------------------- strings
\* Scanner.tsx:149  new Error('No cameras found on this device')
\* "No cameras found on this device"
ThrownNoCameras ==
  <<"N", "o", " ", "c", "a", "m", "e", "r", "a", "s", " ", "f", "o", "u", "n",
    "d", " ", "o", "n", " ", "t", "h", "i", "s", " ", "d", "e", "v", "i", "c",
    "e">>

\* Scanner.tsx:178
\* "camera"
NeedleCamera ==
  <<"c", "a", "m", "e", "r", "a">>

\* Scanner.tsx:178
\* "permission"
NeedlePermission ==
  <<"p", "e", "r", "m", "i", "s", "s", "i", "o", "n">>

\* Scanner.tsx:178
\* "Permission denied"
NeedlePermissionDenied ==
  <<"P", "e", "r", "m", "i", "s", "s", "i", "o", "n", " ", "d", "e", "n", "i",
    "e", "d">>

\* Scanner.tsx:180
\* "No cameras"
NeedleNoCameras ==
  <<"N", "o", " ", "c", "a", "m", "e", "r", "a", "s">>

\* Scanner.tsx:179
\* "Camera permission denied. Please allow camera access in your browser settings and try again."
MsgPermissionDenied ==
  <<"C", "a", "m", "e", "r", "a", " ", "p", "e", "r", "m", "i", "s", "s", "i",
    "o", "n", " ", "d", "e", "n", "i", "e", "d", ".", " ", "P", "l", "e", "a",
    "s", "e", " ", "a", "l", "l", "o", "w", " ", "c", "a", "m", "e", "r", "a",
    " ", "a", "c", "c", "e", "s", "s", " ", "i", "n", " ", "y", "o", "u", "r",
    " ", "b", "r", "o", "w", "s", "e", "r", " ", "s", "e", "t", "t", "i", "n",
    "g", "s", " ", "a", "n", "d", " ", "t", "r", "y", " ", "a", "g", "a", "i",
    "n", ".">>

\* Scanner.tsx:181
\* "No camera found on this device. Please check your device has a working camera."
MsgNoCamera ==
  <<"N", "o", " ", "c", "a", "m", "e", "r", "a", " ", "f", "o", "u", "n", "d",
    " ", "o", "n", " ", "t", "h", "i", "s", " ", "d", "e", "v", "i", "c", "e",
    ".", " ", "P", "l", "e", "a", "s", "e", " ", "c", "h", "e", "c", "k", " ",
    "y", "o", "u", "r", " ", "d", "e", "v", "i", "c", "e", " ", "h", "a", "s",
    " ", "a", " ", "w", "o", "r", "k", "i", "n", "g", " ", "c", "a", "m", "e",
    "r", "a", ".">>

\* Scanner.tsx:183
\* "Failed to access camera. Please check your permissions and device settings."
MsgCaptureFailed ==
  <<"F", "a", "i", "l", "e", "d", " ", "t", "o", " ", "a", "c", "c", "e", "s",
    "s", " ", "c", "a", "m", "e", "r", "a", ".", " ", "P", "l", "e", "a", "s",
    "e", " ", "c", "h", "e", "c", "k", " ", "y", "o", "u", "r", " ", "p", "e",
    "r", "m", "i", "s", "s", "i", "o", "n", "s", " ", "a", "n", "d", " ", "d",
    "e", "v", "i", "c", "e", " ", "s", "e", "t", "t", "i", "n", "g", "s", ".">>

\* Scanner.tsx:222
\* "Produk tidak ditemukan di database"
MsgNotFound ==
  <<"P", "r", "o", "d", "u", "k", " ", "t", "i", "d", "a", "k", " ", "d", "i",
    "t", "e", "m", "u", "k", "a", "n", " ", "d", "i", " ", "d", "a", "t", "a",
    "b", "a", "s", "e">>

\* Scanner.tsx:230
\* "Error searching product"
MsgSearchError ==
  <<"E", "r", "r", "o", "r", " ", "s", "e", "a", "r", "c", "h", "i", "n", "g",
    " ", "p", "r", "o", "d", "u", "c", "t">>

\* Scanner.tsx:132
\* "Failed to register scanner"
MsgRegisterFailed ==
  <<"F", "a", "i", "l", "e", "d", " ", "t", "o", " ", "r", "e", "g", "i", "s",
    "t", "e", "r", " ", "s", "c", "a", "n", "n", "e", "r">>

\* a rejection of getCameras()/start(): the platform refuses access
\* "NotAllowedError : Permission denied"
RejNotAllowed ==
  <<"N", "o", "t", "A", "l", "l", "o", "w", "e", "d", "E", "r", "r", "o", "r",
    " ", ":", " ", "P", "e", "r", "m", "i", "s", "s", "i", "o", "n", " ", "d",
    "e", "n", "i", "e", "d">>

\* a rejection of start(): the device is busy
\* "NotReadableError : Could not start video source"
RejNotReadable ==
  <<"N", "o", "t", "R", "e", "a", "d", "a", "b", "l", "e", "E", "r", "r", "o",
    "r", " ", ":", " ", "C", "o", "u", "l", "d", " ", "n", "o", "t", " ", "s",
    "t", "a", "r", "t", " ", "v", "i", "d", "e", "o", " ", "s", "o", "u", "r",
    "c", "e">>

\* thrown by new Html5Qrcode('qr-reader') when the element is not rendered
\* "HTML Element with id=qr-reader not found"
RejNoElement ==
  <<"H", "T", "M", "L", " ", "E", "l", "e", "m", "e", "n", "t", " ", "w", "i",
    "t", "h", " ", "i", "d", "=", "q", "r", "-", "r", "e", "a", "d", "e", "r",
    " ", "n", "o", "t", " ", "f", "o", "u", "n", "d">>

\* the phrase that identifies the no-camera message
\* "No camera found"
PhraseNoCameraFound ==
  <<"N", "o", " ", "c", "a", "m", "e", "r", "a", " ", "f", "o", "u", "n", "d">>

\* Scanner.tsx:77
\* "Failed to search scanner"
MsgSearchScannerFailed ==
  <<"F", "a", "i", "l", "e", "d", " ", "t", "o", " ", "s", "e", "a", "r", "c",
    "h", " ", "s", "c", "a", "n", "n", "e", "r">>

\* Scanner.tsx:99
\* "Failed to delete scanner"
MsgDeleteFailed ==
  <<"F", "a", "i", "l", "e", "d", " ", "t", "o", " ", "d", "e", "l", "e", "t",
    "e", " ", "s", "c", "a", "n", "n", "e", "r">>

\* Scanner.tsx:72  `Scanner "${searchName}" not found`, before the name
ScannerNotFoundPrefix ==
  <<"S", "c", "a", "n", "n", "e", "r", " ", "\"">>

\* Scanner.tsx:72  `Scanner "${searchName}" not found`, after the name
ScannerNotFoundSuffix ==
  <<"\"", " ", "n", "o", "t", " ", "f", "o", "u", "n", "d">>

\* ---------------------------------------------------------------- pure functions
\* String.prototype.includes
Includes(s, sub) ==
  \E i \in 0..(Len(s) - Len(sub)) : SubSeq(s, i + 1, i + Len(sub)) = sub

\* the white space String.prototype.trim removes (the members the inputs use)
IsWhiteSpace(c) ==
  c \in {" ", "\t", "\n"}

RECURSIVE TrimStart(_)
TrimStart(s) ==
  IF s = <<>> THEN s
  ELSE IF IsWhiteSpace(Head(s)) THEN TrimStart(Tail(s)) ELSE s

RECURSIVE TrimEnd(_)
TrimEnd(s) ==
  IF s = <<>> THEN s
  ELSE IF IsWhiteSpace(s[Len(s)]) THEN TrimEnd(SubSeq(s, 1, Len(s) - 1)) ELSE s

\* String.prototype.trim
Trim(s) ==
  TrimEnd(TrimStart(s))

\* truthiness of a string: the empty string is falsy
Truthy(s) ==
  s # <<>>

\* the user-facing message startCamera's catch block picks for a thrown message
CameraErrorMessage(errorMessage) ==
  IF \/ Includes(errorMessage, NeedleCamera)
     \/ Includes(errorMessage, NeedlePermission)
     \/ Includes(errorMessage, NeedlePermissionDenied)
  THEN MsgPermissionDenied
  ELSE IF Includes(errorMessage, NeedleNoCameras)
  THEN MsgNoCamera
  ELSE MsgCaptureFailed

\* the message searchScannerInfo sets when the search gives no row
ScannerNotFound(searchName) ==
  ScannerNotFoundPrefix \o searchName \o ScannerNotFoundSuffix

\* lower case of one character (the letters the names and queries use)
LowerChar(c) ==
  CASE c = "A" -> "a"
    [] c = "C" -> "c"
    [] c = "M" -> "m"
    [] OTHER -> c

\* case folding of a string, as ilike compares
ToLowerCase(s) ==
  [k \in 1..Len(s) |-> LowerChar(s[k])]

\* .ilike('scanner_name', `%${searchName}%`) for a searchName without % and _
ILike(scanner_name, searchName) ==
  Includes(ToLowerCase(scanner_name), ToLowerCase(searchName))

\* .order(column, { ascending: false }) over rows with distinct column values
RECURSIVE OrderDesc(_, _)
OrderDesc(rows, column) ==
  IF rows = {} THEN <<>>
  ELSE LET first == CHOOSE r \in rows : \A q \in rows : q[column] <= r[column]
       IN  <<first>> \o OrderDesc(rows \ {first}, column)

\* scanners.filter(s => s.id !== scannerId)
FilterOut(list, scannerId) ==
  SelectSeq(list, LAMBDA s : s.id # scannerId)

\* a sequence without its i-th element
Remove(seq, i) ==
  SubSeq(seq, 1, i - 1) \o SubSeq(seq, i + 1, Len(seq))

\* ---------------------------------------------------------------- inputs
\* a serial number the product store holds
SN1 ==
  <<"S", "N", "-", "1">>

\* a serial number the product store does not hold
SN9 ==
  <<"S", "N", "-", "9">>

\* texts the decode engine delivers and the user types: empty, white space
\* only, a bare serial number, a serial number with white space around it
Texts ==
  {<<>>, <<" ", "\t">>, SN1, <<" ">> \o SN9 \o <<"\n">>}

\* rows of the products table (serial_number is its key)
Widget ==
  [serial_number |-> SN1, product_name |-> "Widget"]

\* the contents of the products table
Store ==
  {Widget}

\* messages the platform rejects getCameras() and start() with
Rejections ==
  {RejNotAllowed, RejNotReadable}

\* lengths of the list getCameras() resolves with
CameraCounts ==
  0..2

\* a row of the scanners table (the columns the component reads or filters on)
ScannerRow(id, user_id, scanner_name, is_active, created_at, last_used_at) ==
  [id |-> id, user_id |-> user_id, scanner_name |-> scanner_name,
   is_active |-> is_active, created_at |-> created_at,
   last_used_at |-> last_used_at]

\* the scanners table when the component mounts: two active profiles and an
\* inactive one of user u1, and a profile of another user
ScannerStore ==
  {ScannerRow("a", "u1", <<"C", "a", "m">>, TRUE, 1, 3),
   ScannerRow("b", "u1", <<"c", "a", "m", "2">>, TRUE, 2, 2),
   ScannerRow("c", "u1", <<"C", "a", "m", "3">>, FALSE, 3, 1),
   ScannerRow("d", "u2", <<"C", "a", "m">>, TRUE, 4, 4)}

\* texts typed into the scanner search input: empty, white space only, a
\* name part in another case, a text no name holds
ScannerQueries ==
  {<<>>, <<" ">>, <<"C", "A">>, <<"x">>}

\* useRef<Html5Qrcode | null>(null), no user
NULL ==
  "null"

\* useState<Product | null>(null): the displayed product is a set of at most
\* one row, empty for null
NoProduct ==
  {}

\* ---------------------------------------------------------------- state
VARIABLES
  mounted,         \* the component is mounted (the cleanup effect has not run)
  user,            \* useAuth().user
  products,        \* the products table
  scan_history,    \* the scan_history table, in insertion order
  cameraActive,    \* useState(false)
  manualSN,        \* useState('')
  scannedProduct,  \* useState<Product | null>(null)
  scanStatus,      \* useState('idle')
  error,           \* useState('')
  html5QrCodeRef,  \* html5QrCodeRef.current
  isScanning,      \* html5QrCodeRef.current.isScanning: the engine samples frames
  startCalls,      \* startCamera invocations suspended at each await
  stopCalls,       \* stopCamera invocations suspended at await stop()
  unmountStop,     \* the cleanup's stop() promise is pending
  lookups,         \* one record per decode callback or manual search
  resetTimers,     \* pending setTimeout(..., 2000) callbacks, in firing order
  stopped,         \* stopCamera ran to its end and startCamera was not called since
  last,            \* what the last segment ended, see Ran
  scanners,            \* useState<Scanner[]>([])
  showScannerModal,    \* useState(false)
  scannerSearchInput,  \* useState('')
  loadingScanners,     \* useState(false)
  scannerRows,         \* the scanners table
  registryCalls,       \* loadScanners, searchScannerInfo and deleteScannerInfo
                       \* invocations suspended at their store call
  errorTimers          \* pending setTimeout(() => setError(''), 3000) callbacks

vars ==
  <<mounted, user, products, scan_history, cameraActive, manualSN,
    scannedProduct, scanStatus, error, html5QrCodeRef, isScanning, startCalls,
    stopCalls, unmountStop, lookups, resetTimers, stopped, last, scanners,
    showScannerModal, scannerSearchInput, loadingScanners, scannerRows,
    registryCalls, errorTimers>>

\* the scanner registry: its React state cells, its table, its pending work
registry ==
  <<scanners, showScannerModal, scannerSearchInput, loadingScanners,
    scannerRows, registryCalls, errorTimers>>

\* what the scanner registry never writes
session ==
  <<user, products, scan_history, cameraActive, manualSN, scannedProduct,
    scanStatus, html5QrCodeRef, isScanning, startCalls, stopCalls, unmountStop,
    lookups, resetTimers, stopped>>

\* the React state cells
ui ==
  <<cameraActive, manualSN, scannedProduct, scanStatus, error>>

\* a state setter: React drops updates of an unmounted component
SetState(current, value) ==
  IF mounted THEN value ELSE current

\* startCamera invocations that have not run to their end
Outstanding(calls) ==
  calls.cameras + calls.starting + calls.upsert

\* the handler the last segment ended, when that is startCamera through its
\* catch block (with the message it caught) or stopCamera; "other" otherwise
Ran(op, errorMessage) ==
  [op |-> op, errorMessage |-> errorMessage]

\* an invocation of a registry handler suspended at its store call; scanners
\* is the list its closure holds (the render it was called from)
RegistryCall(op, searchName, scannerId, closure) ==
  [op |-> op, searchName |-> searchName, scannerId |-> scannerId,
   scanners |-> closure]

\* store calls in flight plus pending message timers
Pending ==
  Len(registryCalls) + errorTimers

\* the component after its first render and its mount effects: with a user,
\* loadScanners has run up to its query
Init ==
  /\ mounted = TRUE
  /\ user \in {NULL, "u1"}
  /\ products = Store
  /\ scan_history = <<>>
  /\ cameraActive = FALSE
  /\ manualSN = <<>>
  /\ scannedProduct = NoProduct
  /\ scanStatus = "idle"
  /\ error = <<>>
  /\ html5QrCodeRef = NULL
  /\ isScanning = FALSE
  /\ startCalls = [cameras |-> 0, starting |-> 0, upsert |-> 0]
  /\ stopCalls = 0
  /\ unmountStop = FALSE
  /\ lookups = <<>>
  /\ resetTimers = <<>>
  /\ stopped = FALSE
  /\ last = Ran("other", <<>>)
  /\ scanners = <<>>
  /\ showScannerModal = FALSE
  /\ scannerSearchInput = <<>>
  /\ loadingScanners = (user # NULL)
  /\ scannerRows = ScannerStore
  /\ registryCalls =
       IF user # NULL THEN <<RegistryCall("load", <<>>, NULL, <<>>)>> ELSE <<>>
  /\ errorTimers = 0

\* ---------------------------------------------------------------- startCamera
\* StartCameraCatch without setCameraActive(false)
StartCameraCatchKeepsActive(errorMessage, stage) ==
  /\ error' = SetState(error, CameraErrorMessage(errorMessage))
  /\ startCalls' = [startCalls EXCEPT ![stage] = @ - 1]
  /\ last' = Ran("startCameraCatch", errorMessage)
  /\ UNCHANGED <<mounted, user, products, scan_history, cameraActive, manualSN,
                 scannedProduct, scanStatus, html5QrCodeRef, isScanning,
                 stopCalls, unmountStop, lookups, resetTimers, stopped>>

\* the catch block of startCamera, entered from the await named by stage
StartCameraCatch(errorMessage, stage) ==
  /\ error' = SetState(error, CameraErrorMessage(errorMessage))
  /\ cameraActive' = SetState(cameraActive, FALSE)
  /\ startCalls' = [startCalls EXCEPT ![stage] = @ - 1]
  /\ last' = Ran("startCameraCatch", errorMessage)
  /\ UNCHANGED <<mounted, user, products, scan_history, manualSN,
                 scannedProduct, scanStatus, html5QrCodeRef, isScanning,
                 stopCalls, unmountStop, lookups, resetTimers, stopped>>

\* the start button: startCamera up to await Html5Qrcode.getCameras()
StartCamera ==
  /\ mounted
  /\ ~cameraActive
  /\ Outstanding(startCalls) < MaxStarts
  /\ cameraActive' = TRUE
  /\ scanStatus' = "idle"
  /\ error' = <<>>
  /\ html5QrCodeRef' = "Html5Qrcode"
  /\ startCalls' = [startCalls EXCEPT !.cameras = @ + 1]
  /\ stopped' = FALSE
  /\ last' = Ran("other", <<>>)
  /\ UNCHANGED <<mounted, user, products, scan_history, manualSN,
                 scannedProduct, isScanning, stopCalls, unmountStop, lookups,
                 resetTimers>>

\* the start button when new Html5Qrcode('qr-reader') throws: the three
\* setters, then the catch block, in one batch
StartCameraThrows ==
  /\ mounted
  /\ ~cameraActive
  /\ html5QrCodeRef = NULL
  /\ cameraActive' = FALSE
  /\ scanStatus' = "idle"
  /\ error' = CameraErrorMessage(RejNoElement)
  /\ stopped' = FALSE
  /\ last' = Ran("startCameraCatch", RejNoElement)
  /\ UNCHANGED <<mounted, user, products, scan_history, manualSN,
                 scannedProduct, html5QrCodeRef, isScanning, startCalls,
                 stopCalls, unmountStop, lookups, resetTimers>>

\* getCameras() resolves with n cameras: none throws, else start() is called
GetCamerasResolve(n) ==
  /\ startCalls.cameras > 0
  /\ IF n = 0
     THEN StartCameraCatch(ThrownNoCameras, "cameras")
     ELSE /\ startCalls' = [startCalls EXCEPT !.cameras = @ - 1,
                                              !.starting = @ + 1]
          /\ last' = Ran("other", <<>>)
          /\ UNCHANGED <<mounted, user, products, scan_history, ui,
                         html5QrCodeRef, isScanning, stopCalls, unmountStop,
                         lookups, resetTimers, stopped>>

\* getCameras() rejects
GetCamerasReject(errorMessage) ==
  /\ startCalls.cameras > 0
  /\ StartCameraCatch(errorMessage, "cameras")

\* html5QrCodeRef.current.start() resolves: the engine samples frames, then
\* registerCurrentScanner up to its await (it returns at once without a user)
EngineStartResolve ==
  /\ startCalls.starting > 0
  /\ isScanning' = TRUE
  /\ startCalls' = IF user = NULL
                   THEN [startCalls EXCEPT !.starting = @ - 1]
                   ELSE [startCalls EXCEPT !.starting = @ - 1,
                                           !.upsert = @ + 1]
  /\ last' = Ran("other", <<>>)
  /\ UNCHANGED <<mounted, user, products, scan_history, ui, html5QrCodeRef,
                 stopCalls, unmountStop, lookups, resetTimers, stopped>>

\* html5QrCodeRef.current.start() rejects
EngineStartReject(errorMessage) ==
  /\ startCalls.starting > 0
  /\ StartCameraCatch(errorMessage, "starting")

\* registerCurrentScanner: the upsert answers; an insertError is thrown to its
\* catch block, which sets the message
UpsertResolve(ok) ==
  /\ startCalls.upsert > 0
  /\ startCalls' = [startCalls EXCEPT !.upsert = @ - 1]
  /\ error' = IF ok THEN error ELSE SetState(error, MsgRegisterFailed)
  /\ last' = Ran("other", <<>>)
  /\ UNCHANGED <<mounted, user, products, scan_history, cameraActive, manualSN,
                 scannedProduct, scanStatus, html5QrCodeRef, isScanning,
                 stopCalls, unmountStop, lookups, resetTimers, stopped>>

\* ---------------------------------------------------------------- stopCamera
\* stopCamera after its try/catch: the two setters
StopCameraEnd ==
  /\ cameraActive' = SetState(cameraActive, FALSE)
  /\ scanStatus' = SetState(scanStatus, "idle")
  /\ stopped' = TRUE
  /\ last' = Ran("stopCameraEnd", <<>>)

\* the stop button: stop() is awaited only when the engine reports isScanning
StopCamera ==
  /\ mounted
  /\ cameraActive
  /\ IF html5QrCodeRef # NULL /\ isScanning
     THEN /\ stopCalls < MaxStops
          /\ stopCalls' = stopCalls + 1
          /\ last' = Ran("other", <<>>)
          /\ UNCHANGED <<cameraActive, scanStatus, stopped>>
     ELSE /\ StopCameraEnd
          /\ UNCHANGED stopCalls
  /\ UNCHANGED <<mounted, user, products, scan_history, manualSN,
                 scannedProduct, error, html5QrCodeRef, isScanning, startCalls,
                 unmountStop, lookups, resetTimers>>

\* EngineStopResolve with a stopCamera that clears the pending 300 ms timers
EngineStopResolveCancelling ==
  /\ stopCalls > 0
  /\ stopCalls' = stopCalls - 1
  /\ isScanning' = FALSE
  /\ StopCameraEnd
  /\ lookups' = [i \in 1..Len(lookups) |->
                  IF lookups[i].pc = "debounce"
                  THEN [decodedText |-> <<>>, serialNumber |-> <<>>,
                        origin |-> "none", pc |-> "done"]
                  ELSE lookups[i]]
  /\ UNCHANGED <<mounted, user, products, scan_history, manualSN,
                 scannedProduct, error, html5QrCodeRef, startCalls,
                 unmountStop, resetTimers>>

\* stop() resolves: the engine no longer samples frames
EngineStopResolve ==
  /\ stopCalls > 0
  /\ stopCalls' = stopCalls - 1
  /\ isScanning' = FALSE
  /\ StopCameraEnd
  /\ UNCHANGED <<mounted, user, products, scan_history, manualSN,
                 scannedProduct, error, html5QrCodeRef, startCalls,
                 unmountStop, lookups, resetTimers>>

\* EngineStopReject with a catch block that shows the failure to the user
EngineStopRejectSurfaced(released) ==
  /\ stopCalls > 0
  /\ stopCalls' = stopCalls - 1
  /\ isScanning' = (isScanning /\ ~released)
  /\ StopCameraEnd
  /\ error' = SetState(error, MsgCaptureFailed)
  /\ UNCHANGED <<mounted, user, products, scan_history, manualSN,
                 scannedProduct, html5QrCodeRef, startCalls, unmountStop,
                 lookups, resetTimers>>

\* stop() rejects and the catch block logs it; the capture was released
\* already (released) or is still running
EngineStopReject(released) ==
  /\ stopCalls > 0
  /\ stopCalls' = stopCalls - 1
  /\ isScanning' = (isScanning /\ ~released)
  /\ StopCameraEnd
  /\ UNCHANGED <<mounted, user, products, scan_history, manualSN,
                 scannedProduct, error, html5QrCodeRef, startCalls,
                 unmountStop, lookups, resetTimers>>

\* ---------------------------------------------------------------- unmount
\* the cleanup of the mount effect: stop() is called, not awaited, only when
\* the engine reports isScanning
Unmount ==
  /\ mounted
  /\ mounted' = FALSE
  /\ unmountStop' = (html5QrCodeRef # NULL /\ isScanning)
  /\ last' = Ran("other", <<>>)
  /\ UNCHANGED <<user, products, scan_history, ui, html5QrCodeRef, isScanning,
                 startCalls, stopCalls, lookups, resetTimers, stopped>>

\* the cleanup's stop() resolves
UnmountStopResolve ==
  /\ unmountStop
  /\ unmountStop' = FALSE
  /\ isScanning' = FALSE
  /\ last' = Ran("other", <<>>)
  /\ UNCHANGED <<mounted, user, products, scan_history, ui, html5QrCodeRef,
                 startCalls, stopCalls, lookups, resetTimers, stopped>>

\* the cleanup's stop() rejects and .catch logs it
UnmountStopReject(released) ==
  /\ unmountStop
  /\ unmountStop' = FALSE
  /\ isScanning' = (isScanning /\ ~released)
  /\ last' = Ran("other", <<>>)
  /\ UNCHANGED <<mounted, user, products, scan_history, ui, html5QrCodeRef,
                 startCalls, stopCalls, lookups, resetTimers, stopped>>

\* ---------------------------------------------------------------- decode
\* a lookup record: the text of the decode callback (camera), the argument of
\* searchProduct once it is called, who called it, and where it stands
Lookup(decodedText, serialNumber, origin, pc) ==
  [decodedText |-> decodedText, serialNumber |-> serialNumber,
   origin |-> origin, pc |-> pc]

\* a lookup whose searchProduct call has set its reset timer (pc "timer") or
\* has nothing left to run (pc "done"): its arguments are dead
Spent(pc) ==
  Lookup(<<>>, <<>>, "none", pc)

\* the decode callback of start(): status detecting and a 300 ms timer
Decode(decodedText) ==
  /\ isScanning
  /\ Len(lookups) < MaxLookups
  /\ scanStatus' = SetState(scanStatus, "detecting")
  /\ lookups' = Append(lookups, Lookup(decodedText, <<>>, "camera", "debounce"))
  /\ last' = Ran("other", <<>>)
  /\ UNCHANGED <<mounted, user, products, scan_history, cameraActive, manualSN,
                 scannedProduct, error, html5QrCodeRef, isScanning, startCalls,
                 stopCalls, unmountStop, resetTimers, stopped>>

\* DebounceFire testing decodedText instead of decodedText.trim()
DebounceFireUntrimmedTest(i) ==
  /\ lookups[i].pc = "debounce"
  /\ \A j \in 1..(i - 1) : lookups[j].pc # "debounce"
  /\ lookups' = IF Truthy(lookups[i].decodedText)
                THEN [lookups EXCEPT ![i].pc = "query",
                        ![i].serialNumber = Trim(lookups[i].decodedText)]
                ELSE [lookups EXCEPT ![i] = Spent("done")]
  /\ last' = Ran("other", <<>>)
  /\ UNCHANGED <<mounted, user, products, scan_history, ui, html5QrCodeRef,
                 isScanning, startCalls, stopCalls, unmountStop, resetTimers,
                 stopped>>

\* DebounceFire dropping a text whose lookup is already in flight
DebounceFireDeduplicated(i) ==
  /\ lookups[i].pc = "debounce"
  /\ \A j \in 1..(i - 1) : lookups[j].pc # "debounce"
  /\ lookups' = IF /\ Truthy(Trim(lookups[i].decodedText))
                   /\ \A j \in 1..Len(lookups) :
                        ~ /\ lookups[j].pc \in {"query", "history"}
                          /\ lookups[j].serialNumber = Trim(lookups[i].decodedText)
                THEN [lookups EXCEPT ![i].pc = "query",
                        ![i].serialNumber = Trim(lookups[i].decodedText)]
                ELSE [lookups EXCEPT ![i] = Spent("done")]
  /\ last' = Ran("other", <<>>)
  /\ UNCHANGED <<mounted, user, products, scan_history, ui, html5QrCodeRef,
                 isScanning, startCalls, stopCalls, unmountStop, resetTimers,
                 stopped>>

\* the 300 ms timer of lookup i fires (equal delays fire in the order set):
\* searchProduct is called with the trimmed text unless that is empty
DebounceFire(i) ==
  /\ lookups[i].pc = "debounce"
  /\ \A j \in 1..(i - 1) : lookups[j].pc # "debounce"
  /\ lookups' = IF Truthy(Trim(lookups[i].decodedText))
                THEN [lookups EXCEPT ![i].pc = "query",
                        ![i].serialNumber = Trim(lookups[i].decodedText)]
                ELSE [lookups EXCEPT ![i] = Spent("done")]
  /\ last' = Ran("other", <<>>)
  /\ UNCHANGED <<mounted, user, products, scan_history, ui, html5QrCodeRef,
                 isScanning, startCalls, stopCalls, unmountStop, resetTimers,
                 stopped>>

\* ---------------------------------------------------------------- manual search
\* the user types text into the serial number input (onChange) and submits
\* the form (onSubmit): searchProduct with the trimmed input unless empty
HandleManualSearch(text) ==
  /\ mounted
  /\ IF Truthy(Trim(text))
     THEN /\ Len(lookups) < MaxLookups
          /\ lookups' = Append(lookups,
                               Lookup(<<>>, Trim(text), "manual", "query"))
          /\ manualSN' = <<>>
          /\ last' = Ran("other", <<>>)
     ELSE /\ lookups' = lookups
          /\ manualSN' = text
          /\ last' = Ran("other", <<>>)
  /\ UNCHANGED <<mounted, user, products, scan_history, cameraActive,
                 scannedProduct, scanStatus, error, html5QrCodeRef, isScanning,
                 startCalls, stopCalls, unmountStop, resetTimers, stopped>>

\* ---------------------------------------------------------------- searchProduct
\* FindBySerial without its .eq filter
FindBySerialUnfiltered(serialNumber) ==
  products

\* .from('products').select('*').eq('serial_number', serialNumber)
FindBySerial(serialNumber) ==
  {p \in products : p.serial_number = serialNumber}

\* setTimeout(() => setScanStatus('idle'), 2000) on behalf of lookup i
ScheduleReset(i) ==
  /\ resetTimers' = Append(resetTimers, i)
  /\ lookups' = [lookups EXCEPT ![i] = Spent("timer")]

\* the catch block of searchProduct
SearchProductCatch(i) ==
  /\ scanStatus' = SetState(scanStatus, "error")
  /\ error' = SetState(error, MsgSearchError)
  /\ lookups' = [lookups EXCEPT ![i] = Spent("done")]
  /\ last' = Ran("other", <<>>)
  /\ UNCHANGED <<mounted, user, products, scan_history, cameraActive, manualSN,
                 scannedProduct, html5QrCodeRef, isScanning, startCalls,
                 stopCalls, unmountStop, resetTimers, stopped>>

\* SearchProductFound without setScannedProduct(data)
SearchProductFoundStatusOnly(i, data) ==
  /\ scannedProduct' = scannedProduct
  /\ scanStatus' = SetState(scanStatus, "success")
  /\ IF user = NULL
     THEN ScheduleReset(i)
     ELSE /\ lookups' = [lookups EXCEPT ![i].pc = "history"]
          /\ UNCHANGED resetTimers
  /\ last' = Ran("other", <<>>)
  /\ UNCHANGED <<mounted, user, products, scan_history, cameraActive, manualSN,
                 error, html5QrCodeRef, isScanning, startCalls, stopCalls,
                 unmountStop, stopped>>

\* the branch of searchProduct for a row: show it, then saveScanHistory up to
\* its await (without a user it returns and the reset timer is set at once)
SearchProductFound(i, data) ==
  /\ scannedProduct' = SetState(scannedProduct, {data})
  /\ scanStatus' = SetState(scanStatus, "success")
  /\ IF user = NULL
     THEN ScheduleReset(i)
     ELSE /\ lookups' = [lookups EXCEPT ![i].pc = "history"]
          /\ UNCHANGED resetTimers
  /\ last' = Ran("other", <<>>)
  /\ UNCHANGED <<mounted, user, products, scan_history, cameraActive, manualSN,
                 error, html5QrCodeRef, isScanning, startCalls, stopCalls,
                 unmountStop, stopped>>

\* SearchProductNotFound with a saveScanHistory call for the miss
SearchProductNotFoundLogged(i) ==
  /\ scanStatus' = SetState(scanStatus, "error")
  /\ error' = SetState(error, MsgNotFound)
  /\ scannedProduct' = SetState(scannedProduct, NoProduct)
  /\ IF user = NULL
     THEN ScheduleReset(i)
     ELSE /\ lookups' = [lookups EXCEPT ![i].pc = "history"]
          /\ UNCHANGED resetTimers
  /\ last' = Ran("other", <<>>)
  /\ UNCHANGED <<mounted, user, products, scan_history, cameraActive, manualSN,
                 html5QrCodeRef, isScanning, startCalls, stopCalls, unmountStop,
                 stopped>>

\* the branch of searchProduct for no row
SearchProductNotFound(i) ==
  /\ scanStatus' = SetState(scanStatus, "error")
  /\ error' = SetState(error, MsgNotFound)
  /\ scannedProduct' = SetState(scannedProduct, NoProduct)
  /\ ScheduleReset(i)
  /\ last' = Ran("other", <<>>)
  /\ UNCHANGED <<mounted, user, products, scan_history, cameraActive, manualSN,
                 html5QrCodeRef, isScanning, startCalls, stopCalls, unmountStop,
                 stopped>>

\* the query of lookup i answers; maybeSingle() gives the row, null for no
\* row, and an error for more than one
QueryResolve(i) ==
  /\ lookups[i].pc = "query"
  /\ LET rows == FindBySerial(lookups[i].serialNumber)
     IN  IF Cardinality(rows) > 1
         THEN SearchProductCatch(i)
         ELSE IF rows = {}
         THEN SearchProductNotFound(i)
         ELSE SearchProductFound(i, CHOOSE p \in rows : TRUE)

\* the query of lookup i fails (searchError, or the call throws)
QueryFail(i) ==
  /\ lookups[i].pc = "query"
  /\ SearchProductCatch(i)

\* ---------------------------------------------------------------- saveScanHistory
\* the row saveScanHistory inserts
ScanEvent(serialNumber, method) ==
  [user_id |-> user, serial_number |-> serialNumber, scan_method |-> method]

\* the insert of lookup i answers (stored or not: its outcome is not read),
\* searchProduct resumes and sets the reset timer
HistoryResolve(i, stored) ==
  /\ lookups[i].pc = "history"
  /\ scan_history' = IF stored
                     THEN Append(scan_history,
                                 ScanEvent(lookups[i].serialNumber, "camera"))
                     ELSE scan_history
  /\ ScheduleReset(i)
  /\ last' = Ran("other", <<>>)
  /\ UNCHANGED <<mounted, user, products, ui, html5QrCodeRef, isScanning,
                 startCalls, stopCalls, unmountStop, stopped>>

\* ResetFire with a timer that leaves the status alone when a later lookup
\* has set its own timer
ResetFireOwnStatusOnly ==
  /\ resetTimers # <<>>
  /\ scanStatus' = IF Len(resetTimers) = 1
                   THEN SetState(scanStatus, "idle")
                   ELSE scanStatus
  /\ lookups' = [lookups EXCEPT ![Head(resetTimers)] = Spent("done")]
  /\ resetTimers' = Tail(resetTimers)
  /\ last' = Ran("other", <<>>)
  /\ UNCHANGED <<mounted, user, products, scan_history, cameraActive, manualSN,
                 scannedProduct, error, html5QrCodeRef, isScanning, startCalls,
                 stopCalls, unmountStop, stopped>>

\* the oldest 2 s timer fires
ResetFire ==
  /\ resetTimers # <<>>
  /\ scanStatus' = SetState(scanStatus, "idle")
  /\ lookups' = [lookups EXCEPT ![Head(resetTimers)] = Spent("done")]
  /\ resetTimers' = Tail(resetTimers)
  /\ last' = Ran("other", <<>>)
  /\ UNCHANGED <<mounted, user, products, scan_history, cameraActive, manualSN,
                 scannedProduct, error, html5QrCodeRef, isScanning, startCalls,
                 stopCalls, unmountStop, stopped>>

\* ---------------------------------------------------------------- specification
\* the scan session; none of its handlers touches the scanner registry
Next ==
  \/ StartCamera /\ UNCHANGED registry
  \/ StartCameraThrows /\ UNCHANGED registry
  \/ \E n \in CameraCounts : GetCamerasResolve(n) /\ UNCHANGED registry
  \/ \E m \in Rejections : GetCamerasReject(m) /\ UNCHANGED registry
  \/ EngineStartResolve /\ UNCHANGED registry
  \/ \E m \in Rejections : EngineStartReject(m) /\ UNCHANGED registry
  \/ \E ok \in BOOLEAN : UpsertResolve(ok) /\ UNCHANGED registry
  \/ StopCamera /\ UNCHANGED registry
  \/ EngineStopResolve /\ UNCHANGED registry
  \/ \E released \in BOOLEAN : EngineStopReject(released) /\ UNCHANGED registry
  \/ Unmount /\ UNCHANGED registry
  \/ UnmountStopResolve /\ UNCHANGED registry
  \/ \E released \in BOOLEAN : UnmountStopReject(released) /\ UNCHANGED registry
  \/ \E t \in Texts : Decode(t) /\ UNCHANGED registry
  \/ \E i \in 1..Len(lookups) : DebounceFire(i) /\ UNCHANGED registry
  \/ \E t \in Texts : HandleManualSearch(t) /\ UNCHANGED registry
  \/ \E i \in 1..Len(lookups) : QueryResolve(i) /\ UNCHANGED registry
  \/ \E i \in 1..Len(lookups) : QueryFail(i) /\ UNCHANGED registry
  \/ \E i \in 1..Len(lookups), stored \in BOOLEAN :
       HistoryResolve(i, stored) /\ UNCHANGED registry
  \/ ResetFire /\ UNCHANGED registry

Spec ==
  Init /\ [][Next]_vars

\* ---------------------------------------------------------------- scanner registry
\* "Manage Scanners" is clicked
OpenScannerModal ==
  /\ mounted
  /\ ~showScannerModal
  /\ showScannerModal' = TRUE
  /\ last' = Ran("other", <<>>)
  /\ UNCHANGED <<mounted, error, session, scanners, scannerSearchInput,
                 loadingScanners, scannerRows, registryCalls, errorTimers>>

\* the modal's x or Close is clicked
CloseScannerModal ==
  /\ mounted
  /\ showScannerModal
  /\ showScannerModal' = FALSE
  /\ last' = Ran("other", <<>>)
  /\ UNCHANGED <<mounted, error, session, scanners, scannerSearchInput,
                 loadingScanners, scannerRows, registryCalls, errorTimers>>

\* the search input's onChange
SetScannerSearchInput(text) ==
  /\ mounted
  /\ showScannerModal
  /\ scannerSearchInput' = text
  /\ last' = Ran("other", <<>>)
  /\ UNCHANGED <<mounted, error, session, scanners, showScannerModal,
                 loadingScanners, scannerRows, registryCalls, errorTimers>>

\* SearchScannerInfo testing searchName instead of searchName.trim()
SearchScannerInfoUntrimmedTest ==
  /\ mounted
  /\ showScannerModal
  /\ LET searchName == scannerSearchInput
     IN  /\ Truthy(searchName) => Pending < MaxRegistryCalls
         /\ registryCalls' =
              IF ~Truthy(searchName) THEN registryCalls
              ELSE Append(registryCalls,
                          RegistryCall("search", searchName, NULL, scanners))
         /\ last' = Ran("searchScannerInfo", searchName)
  /\ UNCHANGED <<mounted, error, session, scanners, showScannerModal,
                 scannerSearchInput, loadingScanners, scannerRows, errorTimers>>

\* Search is clicked, or Enter pressed in the input: searchScannerInfo up to
\* its query.  last records the call and its searchName.
SearchScannerInfo ==
  /\ mounted
  /\ showScannerModal
  /\ LET searchName == scannerSearchInput
     IN  /\ Truthy(Trim(searchName)) => Pending < MaxRegistryCalls
         /\ registryCalls' =
              IF ~Truthy(Trim(searchName)) THEN registryCalls
              ELSE Append(registryCalls,
                          RegistryCall("search", searchName, NULL, scanners))
         /\ last' = Ran("searchScannerInfo", searchName)
  /\ UNCHANGED <<mounted, error, session, scanners, showScannerModal,
                 scannerSearchInput, loadingScanners, scannerRows, errorTimers>>

\* the rows searchScannerInfo's query selects, newest first
SearchRows(searchName) ==
  OrderDesc({r \in scannerRows :
               r.user_id = user /\ ILike(r.scanner_name, searchName)},
            "created_at")

\* searchScannerInfo's query answers: with data, with an error and no data,
\* or by throwing
SearchResolve(i, outcome) ==
  /\ registryCalls[i].op = "search"
  /\ registryCalls' = Remove(registryCalls, i)
  /\ LET searchName == registryCalls[i].searchName
         data == IF outcome = "data" THEN SearchRows(searchName) ELSE <<>>
     IN  IF outcome = "throw"
         THEN /\ error' = SetState(error, MsgSearchScannerFailed)
              /\ UNCHANGED <<scanners, scannerSearchInput, errorTimers>>
         ELSE IF Len(data) > 0
         THEN /\ scanners' = SetState(scanners, data)
              /\ scannerSearchInput' = SetState(scannerSearchInput, <<>>)
              /\ UNCHANGED <<error, errorTimers>>
         ELSE /\ error' = SetState(error, ScannerNotFound(searchName))
              /\ errorTimers' = errorTimers + 1
              /\ UNCHANGED <<scanners, scannerSearchInput>>
  /\ last' = Ran("other", <<>>)
  /\ UNCHANGED <<mounted, session, showScannerModal, loadingScanners,
                 scannerRows>>

\* a 3 s timer of searchScannerInfo fires
ErrorTimerFire ==
  /\ errorTimers > 0
  /\ errorTimers' = errorTimers - 1
  /\ error' = SetState(error, <<>>)
  /\ last' = Ran("other", <<>>)
  /\ UNCHANGED <<mounted, session, scanners, showScannerModal,
                 scannerSearchInput, loadingScanners, scannerRows,
                 registryCalls>>

\* DeleteScannerInfo going on whatever confirm() answers
DeleteScannerInfoUnconfirmed(scannerId, confirmed) ==
  /\ mounted
  /\ showScannerModal
  /\ ~loadingScanners
  /\ \E k \in 1..Len(scanners) : scanners[k].id = scannerId
  /\ Pending < MaxRegistryCalls
  /\ registryCalls' =
       Append(registryCalls, RegistryCall("delete", <<>>, scannerId, scanners))
  /\ last' = Ran(IF confirmed THEN "other" ELSE "confirmDeclined", <<>>)
  /\ UNCHANGED <<mounted, error, session, scanners, showScannerModal,
                 scannerSearchInput, loadingScanners, scannerRows, errorTimers>>

\* the delete button of a listed scanner is clicked and confirm() answers:
\* deleteScannerInfo up to its store call.  last records a declined confirm().
DeleteScannerInfo(scannerId, confirmed) ==
  /\ mounted
  /\ showScannerModal
  /\ ~loadingScanners
  /\ \E k \in 1..Len(scanners) : scanners[k].id = scannerId
  /\ confirmed => Pending < MaxRegistryCalls
  /\ registryCalls' =
       IF ~confirmed THEN registryCalls
       ELSE Append(registryCalls,
                   RegistryCall("delete", <<>>, scannerId, scanners))
  /\ last' = Ran(IF confirmed THEN "other" ELSE "confirmDeclined", <<>>)
  /\ UNCHANGED <<mounted, error, session, scanners, showScannerModal,
                 scannerSearchInput, loadingScanners, scannerRows, errorTimers>>

\* deleteScannerInfo's store call answers: without an error, or with one (or
\* by throwing).  The list filtered is the one the handler's closure holds.
DeleteResolve(i, ok) ==
  /\ registryCalls[i].op = "delete"
  /\ registryCalls' = Remove(registryCalls, i)
  /\ LET scannerId == registryCalls[i].scannerId
     IN  IF ok
         THEN /\ scannerRows' =
                   {r \in scannerRows :
                      ~(r.id = scannerId /\ r.user_id = user)}
              /\ scanners' =
                   SetState(scanners,
                            FilterOut(registryCalls[i].scanners, scannerId))
              /\ error' = SetState(error, <<>>)
         ELSE /\ error' = SetState(error, MsgDeleteFailed)
              /\ UNCHANGED <<scannerRows, scanners>>
  /\ last' = Ran("other", <<>>)
  /\ UNCHANGED <<mounted, session, showScannerModal, scannerSearchInput,
                 loadingScanners, errorTimers>>

\* the rows loadScanners' query selects, most recently used first
LoadRows ==
  OrderDesc({r \in scannerRows : r.user_id = user /\ r.is_active},
            "last_used_at")

\* loadScanners' query answers, with data or without
LoadResolve(i, ok) ==
  /\ registryCalls[i].op = "load"
  /\ registryCalls' = Remove(registryCalls, i)
  /\ scanners' = IF ok THEN SetState(scanners, LoadRows) ELSE scanners
  /\ loadingScanners' = SetState(loadingScanners, FALSE)
  /\ last' = Ran("other", <<>>)
  /\ UNCHANGED <<mounted, error, session, showScannerModal,
                 scannerSearchInput, scannerRows, errorTimers>>

\* the scanner registry, and the component's unmount
RegistryNext ==
  \/ OpenScannerModal
  \/ CloseScannerModal
  \/ \E text \in ScannerQueries : SetScannerSearchInput(text)
  \/ SearchScannerInfo
  \/ \E i \in 1..Len(registryCalls), outcome \in {"data", "error", "throw"} :
       SearchResolve(i, outcome)
  \/ ErrorTimerFire
  \/ \E k \in 1..Len(scanners), confirmed \in BOOLEAN :
       DeleteScannerInfo(scanners[k].id, confirmed)
  \/ \E i \in 1..Len(registryCalls), ok \in BOOLEAN : DeleteResolve(i, ok)
  \/ \E i \in 1..Len(registryCalls), ok \in BOOLEAN : LoadResolve(i, ok)
  \/ Unmount /\ UNCHANGED registry

RegistrySpec ==
  Init /\ [][RegistryNext]_vars

\* ---------------------------------------------------------------- properties
\* lookup i is awaiting its query, or its history insert
InFlight(i) ==
  lookups[i].pc \in {"query", "history"}

\* text that is empty or white space only
Blank(text) ==
  \A k \in 1..Len(text) : IsWhiteSpace(text[k])

\* C1: once stopCamera has run to its end and startCamera has not been called
\* since, the engine is not sampling frames.
C1_StoppedMeansNotScanning ==
  stopped => ~isScanning

\* C2: when the query of searchProduct is answered, a row with exactly that
\* serial number gives status success and that row as the displayed product;
\* no row gives status error, the not-found message and no displayed product.
C2_LookupOutcome ==
  [][\A i \in 1..Len(lookups) :
       (/\ mounted
        /\ lookups[i].pc = "query"
        /\ lookups'[i].pc \in {"history", "timer"})
       => IF \E p \in products : p.serial_number = lookups[i].serialNumber
          THEN /\ scanStatus' = "success"
               /\ \E p \in products :
                    /\ p.serial_number = lookups[i].serialNumber
                    /\ scannedProduct' = {p}
          ELSE /\ scanStatus' = "error"
               /\ error' = MsgNotFound
               /\ scannedProduct' = NoProduct]_vars

\* C2: a no-match answer has cleared the product a match displayed before it
C2_Witness ==
  /\ mounted
  /\ scanStatus = "error"
  /\ error = MsgNotFound
  /\ scannedProduct = NoProduct
  /\ Len(lookups) = 2
  /\ lookups[1].pc = "history"
  /\ lookups[2].pc = "timer"

\* C3: a status of success or error left by a lookup returns to idle through
\* the reset timer when nothing else happens; so in a state that shows success
\* or error, a reset timer is pending or a lookup is still on its way to one.
C3_ResetPending ==
  (mounted /\ scanStatus \in {"success", "error"})
  => \/ resetTimers # <<>>
     \/ \E i \in 1..Len(lookups) : lookups[i].pc \in {"debounce", "query", "history"}

\* C4: the history row of a lookup carries the method of that lookup: manual
\* for handleManualSearch, camera for a decode.
C4_MethodPreserved ==
  [][\A i \in 1..Len(lookups) :
       (/\ lookups[i].pc = "history"
        /\ lookups'[i].pc = "timer"
        /\ Len(scan_history') = Len(scan_history) + 1)
       => /\ scan_history'[Len(scan_history')].scan_method = lookups[i].origin
          /\ scan_history'[Len(scan_history')].serial_number
               = lookups[i].serialNumber]_vars

\* C5: startCamera with zero enumerated cameras ends with cameraActive false
\* and the message that contains "No camera found", which is neither the
\* permission-denied nor the generic message.
C5_NoCameraMessage ==
  (mounted /\ last = Ran("startCameraCatch", ThrownNoCameras))
  => /\ cameraActive = FALSE
     /\ Includes(error, PhraseNoCameraFound)
     /\ error # MsgPermissionDenied
     /\ error # MsgCaptureFailed

\* C6: after the unmount cleanup, once its stop() and any stop() of stopCamera
\* have settled, the engine is not sampling frames.
C6_UnmountedMeansNotScanning ==
  (~mounted /\ ~unmountStop /\ stopCalls = 0) => ~isScanning

\* C7: a startCamera that fails ends with cameraActive false and a non-empty
\* message, does not change status to detecting and starts nothing again.
C7_FailedStart ==
  [][(mounted /\ last'.op = "startCameraCatch")
     => /\ cameraActive' = FALSE
        /\ error' # <<>>
        /\ (scanStatus' = "detecting" => scanStatus = "detecting")
        /\ startCalls'.cameras <= startCalls.cameras
        /\ startCalls'.starting <= startCalls.starting
        /\ Outstanding(startCalls') <= Outstanding(startCalls)]_vars

\* C7: start() was rejected with a message of the generic kind
C7_Witness ==
  /\ mounted
  /\ last = Ran("startCameraCatch", RejNotReadable)
  /\ ~cameraActive
  /\ error = MsgCaptureFailed

\* C8: no searchProduct call has an empty or white-space-only argument, and
\* the timer of a decode callback with blank text ends without a call.
C8_BlankNeverSearched ==
  /\ [](\A i \in 1..Len(lookups) :
          InFlight(i) => ~Blank(lookups[i].serialNumber))
  /\ [][\A i \in 1..Len(lookups) :
          (lookups[i].pc = "debounce" /\ Blank(lookups[i].decodedText))
          => lookups'[i].pc \in {"debounce", "done"}]_vars

\* C8: the timer of a blank decode fired: status detecting, nothing in flight
C8_Witness ==
  /\ mounted
  /\ scanStatus = "detecting"
  /\ Len(lookups) = 1
  /\ lookups[1].pc = "done"

\* C9: the timer of every non-blank decode calls searchProduct with the
\* trimmed text whatever other lookups exist, and a lookup that leaves its
\* query writes its own outcome over status and product whatever its position
\* in decode order.
C9_NoDedupLastWins ==
  [][\A i \in 1..Len(lookups) :
       /\ (/\ lookups[i].pc = "debounce"
           /\ ~Blank(lookups[i].decodedText)
           /\ lookups'[i] # lookups[i])
          => /\ lookups'[i].pc = "query"
             /\ lookups'[i].serialNumber = Trim(lookups[i].decodedText)
       /\ (/\ mounted
           /\ lookups[i].pc = "query"
           /\ lookups'[i].pc # "query")
          => IF lookups'[i].pc = "done"
             THEN scanStatus' = "error"
             ELSE IF \E p \in products : p.serial_number = lookups[i].serialNumber
             THEN scanStatus' = "success" /\ scannedProduct' # NoProduct
             ELSE scanStatus' = "error" /\ scannedProduct' = NoProduct]_vars

\* C9: two decodes of the same value each got a lookup, and the later one was
\* answered while the earlier one is still awaiting its query
C9_Witness ==
  /\ Len(lookups) = 2
  /\ lookups[1].pc = "query"
  /\ lookups[1].origin = "camera"
  /\ lookups[2].pc = "history"
  /\ lookups[2].origin = "camera"
  /\ lookups[1].serialNumber = lookups[2].serialNumber
  /\ lookups[1].decodedText = lookups[2].decodedText

\* C10: stopCamera ends with the message unchanged, cameraActive false and
\* status idle, whether or not stop() was called and whether or not it failed.
C10_StopCamera ==
  [][last'.op = "stopCameraEnd"
     => /\ error' = error
        /\ mounted => (cameraActive' = FALSE /\ scanStatus' = "idle")]_vars

\* C10: stop() was rejected and the engine still samples frames
C10_Witness ==
  /\ mounted
  /\ last.op = "stopCameraEnd"
  /\ isScanning
  /\ startCalls.starting = 0
  /\ ~cameraActive
  /\ scanStatus = "idle"

\* C11: a deleteScannerInfo call whose confirmation is declined issues no
\* store call, removes no row, and leaves the local scanner list and the error
\* message as they were.
C11_DeclinedDeleteDoesNothing ==
  [][last'.op = "confirmDeclined" =>
       /\ registryCalls' = registryCalls
       /\ scannerRows' = scannerRows
       /\ scanners' = scanners
       /\ error' = error]_vars

\* a delete was declined while a search was in flight, a message was shown and
\* the list held both loaded scanners
C11_Witness ==
  /\ mounted
  /\ last.op = "confirmDeclined"
  /\ Len(scanners) = 2
  /\ Truthy(error)
  /\ \E i \in 1..Len(registryCalls) : registryCalls[i].op = "search"

\* C12: a searchScannerInfo call with an empty or white-space-only searchName
\* dispatches no query and leaves the scanner list, the search input and the
\* error message as they were.
C12_BlankSearchDoesNothing ==
  [][(last'.op = "searchScannerInfo" /\ Blank(last'.errorMessage)) =>
       /\ registryCalls' = registryCalls
       /\ scannerRows' = scannerRows
       /\ scanners' = scanners
       /\ scannerSearchInput' = scannerSearchInput
       /\ error' = error
       /\ errorTimers' = errorTimers]_vars

\* a search was called with a one-space input, with scanners listed and a
\* message shown
C12_Witness ==
  /\ mounted
  /\ last = Ran("searchScannerInfo", <<" ">>)
  /\ scannerSearchInput = <<" ">>
  /\ Len(scanners) = 2
  /\ Truthy(error)

\* C13: a lookup whose query fails leaves status error and no displayed
\* product, whatever an earlier lookup displayed.
C13_FailureClearsProduct ==
  [][\A i \in 1..Len(lookups) :
       (/\ mounted
        /\ lookups[i].pc = "query"
        /\ lookups'[i].pc = "done")
       => /\ scanStatus' = "error"
          /\ scannedProduct' = NoProduct]_vars

\* C14: status becomes detecting only with a decode callback whose text is
\* not blank, and a decode callback with blank text leaves status unchanged.
C14_DetectingOnlyNonBlank ==
  [][/\ (scanStatus' = "detecting" /\ scanStatus # "detecting")
        => /\ Len(lookups') = Len(lookups) + 1
           /\ lookups'[Len(lookups')].pc = "debounce"
           /\ ~Blank(lookups'[Len(lookups')].decodedText)
     /\ (/\ Len(lookups') = Len(lookups) + 1
         /\ lookups'[Len(lookups')].pc = "debounce"
         /\ Blank(lookups'[Len(lookups')].decodedText))
        => scanStatus' = scanStatus]_vars

\* C15: the end of stopCamera cancels no 300 ms timer, no lookup in flight
\* and no reset timer, so a lookup a decode scheduled before the stop still
\* writes status and product after it.
C15_StopCancelsNothing ==
  [][last'.op = "stopCameraEnd"
     => /\ lookups' = lookups
        /\ resetTimers' = resetTimers]_vars

\* C15: after stopCamera (no start since) the camera is inactive and a decoded
\* lookup has written success and its product over the idle status of the stop
C15_Witness ==
  /\ mounted
  /\ stopped
  /\ ~cameraActive
  /\ scanStatus = "success"
  /\ scannedProduct = {Widget}
  /\ Len(lookups) = 1
  /\ lookups[1].origin = "camera"
  /\ lookups[1].pc = "history"

\* C16: the return to idle after a match does not wait for the history
\* insert: while success is shown a reset timer is already set.
C16_ResetIndependentOfHistory ==
  (mounted /\ scanStatus = "success") => resetTimers # <<>>

\* C17: at most one startCamera invocation awaits getCameras() or start().
C17_OneStartOutstanding ==
  startCalls.cameras + startCalls.starting <= 1

\* C18: once no store call is in flight, the local scanner list of the mounted
\* component holds no deleted scanner: every listed id is a row of the table.
C18_ListHoldsNoDeletedId ==
  (mounted /\ registryCalls = <<>>) =>
    \A k \in 1..Len(scanners) :
      \E r \in scannerRows : r.id = scanners[k].id

\* C19: scan_history changes only by the append of one row, for the serial
\* number and user of a lookup whose insert answers; a lookup calls
\* saveScanHistory's insert exactly when its query gave a row and a user is
\* signed in, and never after no row or a failed query.
C19_HistoryOnlyOnSuccess ==
  [][/\ scan_history' # scan_history
        => \E i \in 1..Len(lookups) :
             /\ lookups[i].pc = "history"
             /\ lookups'[i].pc = "timer"
             /\ Len(scan_history') = Len(scan_history) + 1
             /\ SubSeq(scan_history', 1, Len(scan_history)) = scan_history
             /\ scan_history'[Len(scan_history')].serial_number
                  = lookups[i].serialNumber
             /\ scan_history'[Len(scan_history')].user_id = user
     /\ \A i \in 1..Len(lookups) :
          /\ (lookups[i].pc = "query" /\ lookups'[i].pc # "query")
             => (lookups'[i].pc = "history"
                 <=> /\ user # NULL
                     /\ lookups'[i].pc # "done"
                     /\ \E p \in products :
                          p.serial_number = lookups[i].serialNumber)
          /\ (lookups[i].pc # "query" /\ i <= Len(lookups'))
             => (lookups'[i].pc = "history" => lookups[i].pc = "history")]_vars

\* C19: of two lookups one found its row and stored one history row, the
\* other found none and stored nothing
C19_Witness ==
  /\ mounted
  /\ Len(lookups) = 2
  /\ \A i \in 1..2 : lookups[i].pc \in {"timer", "done"}
  /\ Len(scan_history) = 1
  /\ scanStatus = "error"
  /\ error = MsgNotFound

\* C20 as stated: the timer of an earlier lookup leaves alone the success or
\* error written by a later lookup, whose own timer is still pending.
C20_TimerResetsOwnStatusOnly ==
  [][(/\ mounted
      /\ Len(resetTimers) >= 2
      /\ resetTimers' = Tail(resetTimers)
      /\ scanStatus \in {"success", "error"})
     => scanStatus' = scanStatus]_vars

\* C20 as amended: a reset timer that fires sets status idle, whatever the
\* status is and whichever lookup or decode wrote it.
C20_TimerResetsAnyStatus ==
  [][(/\ mounted
      /\ resetTimers # <<>>
      /\ resetTimers' = Tail(resetTimers))
     => scanStatus' = "idle"]_vars

\* C20: without any camera start, the timer of the first lookup has reset the
\* error the second lookup wrote, whose own timer is still pending
C20_Witness ==
  /\ mounted
  /\ html5QrCodeRef = NULL
  /\ Len(lookups) = 2
  /\ lookups[1].pc = "done"
  /\ lookups[2].pc = "timer"
  /\ resetTimers = <<2>>
  /\ error = MsgNotFound
  /\ scanStatus = "idle"

\* C21: in every reachable state, whatever the interleaving of decodes, manual
\* searches, lookup completions, reset timers, start and stop, status success
\* comes with a displayed product.
C21_SuccessShowsProduct ==
  scanStatus = "success" => scannedProduct # NoProduct

\* status success with the product displayed, after an earlier lookup found no
\* row (its message remains, and it had cleared the product), with the camera
\* started and a lookup still awaiting its history insert
C21_Witness ==
  /\ mounted
  /\ scanStatus = "success"
  /\ scannedProduct = {Widget}
  /\ error = MsgNotFound
  /\ cameraActive
  /\ Len(lookups) = 2
  /\ lookups[2].pc = "history"

====
